---- MODULE Spec2Model ----
(***************************************************************************)
(* Model of export_gacha_uigf.py: the export of the gacha_items table of a *)
(* SQLite store to a UIGF v3.0 JSON document.                              *)
(*                                                                         *)
(* Python strings are sequences of one-character strings.  The two item    *)
(* categories of the source are CJK literals, written here as              *)
(* "character" (U+89D2 U+8272) and "weapon" (U+6B66 U+5668).               *)
(***************************************************************************)
EXTENDS Integers, Sequences, FiniteSets, TLC

VARIABLES
    store,          \* the rows of table gacha_items, in table order
    uid_arg,        \* the uid argument export_gacha_data was called with
    pc,             \* position of the run
    conn,           \* the sqlite3 connection: "none", "open", "closed"
    uid,            \* local uid of export_gacha_data
    rows,           \* local rows (cursor.fetchall())
    idx,            \* position of the for loop in rows
    gacha_list,     \* local gacha_list
    stdout,         \* the messages printed so far
    uigf_data,      \* local uigf_data
    outfile,        \* content of output_path: "previous", "empty", "partial", "complete"
    ret,            \* how export_gacha_data ended: "pending", "None", "uigf_data", "exception"
    exit_status,    \* exit status of the process, -1 while it runs
    item_id,        \* argument of get_item_info
    item_info,      \* result of get_item_info
    time_str,       \* argument of parse_timestamp
    formatted_time, \* result of parse_timestamp
    query_type,     \* argument of GACHA_TYPE_MAP.get
    gacha_info      \* result of GACHA_TYPE_MAP.get

exportVars == <<store, uid_arg, pc, conn, uid, rows, idx, gacha_list, stdout,
                uigf_data, outfile, ret, exit_status>>
itemVars == <<item_id, item_info>>
timeVars == <<time_str, formatted_time>>
poolVars == <<query_type, gacha_info>>
pureVars == <<itemVars, timeVars, poolVars>>
vars == <<exportVars, pureVars>>

-----------------------------------------------------------------------------
(* Bounds of the model *)

MaxRows == 3
MaxItemId == 20001
MaxQueryType == 600
MaxPad == 2

-----------------------------------------------------------------------------
(* Python values *)

None == [none |-> TRUE]
PyInt(n) == [int |-> n]
Unset == [unset |-> TRUE]

Digits == <<"0", "1", "2", "3", "4", "5", "6", "7", "8", "9">>

RECURSIVE StrNat(_)
StrNat(n) == IF n < 10 THEN <<Digits[n + 1]>>
             ELSE StrNat(n \div 10) \o <<Digits[(n % 10) + 1]>>

\* str(n) of an int
Str(n) == IF n < 0 THEN <<"-">> \o StrNat(-n) ELSE StrNat(n)

-----------------------------------------------------------------------------
(* GACHA_TYPE_MAP and GACHA_TYPE_MAP.get *)

GACHA_TYPE_MAP ==
    (100 :> [uigf_gacha_type |-> <<"1", "0", "0">>, gacha_type |-> <<"1", "0", "0">>]) @@
    (200 :> [uigf_gacha_type |-> <<"2", "0", "0">>, gacha_type |-> <<"2", "0", "0">>]) @@
    (301 :> [uigf_gacha_type |-> <<"3", "0", "1">>, gacha_type |-> <<"3", "0", "1">>]) @@
    (302 :> [uigf_gacha_type |-> <<"3", "0", "2">>, gacha_type |-> <<"3", "0", "2">>]) @@
    (400 :> [uigf_gacha_type |-> <<"3", "0", "1">>, gacha_type |-> <<"4", "0", "0">>]) @@
    (500 :> [uigf_gacha_type |-> <<"5", "0", "0">>, gacha_type |-> <<"5", "0", "0">>])

\* the lookup with code 400 mapped to itself
GACHA_TYPE_MAP_get_NoSplit(q) ==
    IF q = 400
    THEN [uigf_gacha_type |-> <<"4", "0", "0">>, gacha_type |-> <<"4", "0", "0">>]
    ELSE IF q \in DOMAIN GACHA_TYPE_MAP THEN GACHA_TYPE_MAP[q] ELSE None

GACHA_TYPE_MAP_get(q) ==
    IF q \in DOMAIN GACHA_TYPE_MAP THEN GACHA_TYPE_MAP[q] ELSE None

-----------------------------------------------------------------------------
(* get_rank_type and get_item_info *)

get_rank_type(id) ==
    IF 10000 <= id /\ id <= 19999 THEN "5"
    ELSE IF 11000 <= id /\ id <= 16999 THEN "4"
    ELSE IF 14000 <= id /\ id <= 14999 THEN "4"
    ELSE IF 15000 <= id /\ id <= 15999 THEN "3"
    ELSE "3"

get_item_info(id) ==
    LET rank == get_rank_type(id) IN
    IF 10000 <= id /\ id <= 19999
    THEN [name |-> <<"character", "_">> \o Str(id),
          item_type |-> "character", rank_type |-> rank]
    ELSE [name |-> <<"weapon", "_">> \o Str(id),
          item_type |-> "weapon", rank_type |-> rank]

-----------------------------------------------------------------------------
(* parse_timestamp *)

IsDigit(c) == c \in {"0", "1", "2", "3", "4", "5", "6", "7", "8", "9"}

\* the characters str.strip() removes (ASCII part)
Whitespace == {" ", "\t", "\n", "\r", "\f"}

\* time_str.replace('\n', '')
RemoveNewlines(s) == SelectSeq(s, LAMBDA c : c # "\n")

\* [+-]\d{2}:\d{2} matches s at positions i .. i+5
OffsetAt(s, i) ==
    /\ i >= 1
    /\ i + 5 <= Len(s)
    /\ s[i] \in {"+", "-"}
    /\ IsDigit(s[i + 1])
    /\ IsDigit(s[i + 2])
    /\ s[i + 3] = ":"
    /\ IsDigit(s[i + 4])
    /\ IsDigit(s[i + 5])

\* the substitution with a pattern that knows only the sign +
StripOffset_PlusOnly(s) ==
    IF OffsetAt(s, Len(s) - 5) /\ s[Len(s) - 5] = "+" THEN SubSeq(s, 1, Len(s) - 6)
    ELSE s

\* re.sub(r'[+-]\d{2}:\d{2}$', '', s): $ matches at the end of the string
\* and just before a newline that ends the string
StripOffset(s) ==
    IF OffsetAt(s, Len(s) - 5) THEN SubSeq(s, 1, Len(s) - 6)
    ELSE IF Len(s) >= 1 /\ s[Len(s)] = "\n" /\ OffsetAt(s, Len(s) - 6)
         THEN SubSeq(s, 1, Len(s) - 7) \o <<"\n">>
    ELSE s

RECURSIVE LStrip(_)
LStrip(s) == IF s # <<>> /\ Head(s) \in Whitespace THEN LStrip(Tail(s)) ELSE s

RECURSIVE RStrip(_)
RStrip(s) == IF s # <<>> /\ s[Len(s)] \in Whitespace
             THEN RStrip(SubSeq(s, 1, Len(s) - 1)) ELSE s

\* str.strip()
Strip(s) == LStrip(RStrip(s))

parse_timestamp(s) == Strip(StripOffset(RemoveNewlines(s)))

-----------------------------------------------------------------------------
(* get_timezone_from_uid *)

\* uid_str.startswith(c)
StartsWith(s, c) == s # <<>> /\ Head(s) = c

\* the inference that looks for the digit anywhere in the key
get_timezone_from_uid_Anywhere(u) ==
    LET uid_str == Str(u.int) IN
    IF \E i \in 1..Len(uid_str) : uid_str[i] = "6" THEN -5
    ELSE IF \E i \in 1..Len(uid_str) : uid_str[i] = "7" THEN 1
    ELSE 8

get_timezone_from_uid(u) ==
    LET uid_str == Str(u.int) IN
    IF StartsWith(uid_str, "6") THEN -5
    ELSE IF StartsWith(uid_str, "7") THEN 1
    ELSE 8

-----------------------------------------------------------------------------
(* The store and the inputs of a run *)

\* identity keys (ArchiveId) of the model
Keys == {67, 76, 86}

\* display record ids (Id) of the model's rows
Ids == {1, 2}

\* query-type codes (QueryType), mapped and unmapped, of the model's rows
QueryTypes == {400, 999}

SampleItemIds == <<12000, 15500, 9999>>

CleanTimes == << <<"2", "0", "2", "4", "-", "1", "1", "-", "1", "6", " ",
                   "1", "0", ":", "3", "3", ":", "1", "5">>,
                 <<"1", "9", "9", "9", "-", "1", "2", "-", "3", "1", " ",
                   "2", "3", ":", "5", "9", ":", "5", "9">> >>

Offsets == { <<"+", "0", "8", ":", "0", "0">>,
             <<"-", "0", "5", ":", "0", "0">>,
             <<"+", "0", "0", ":", "0", "0">> }

SampleTimes == << CleanTimes[1] \o <<"\n">> \o <<"+", "0", "8", ":", "0", "0">>,
                  CleanTimes[2] \o <<"+", "0", "0", ":", "0", "0">>,
                  CleanTimes[1] >>

\* a row of gacha_items; the columns InnerId and GachaType are selected
\* but never used
Row(k, i, q) ==
    [ArchiveId |-> k, Id |-> i, QueryType |-> q,
     ItemId |-> SampleItemIds[((k + i) % 3) + 1],
     Time |-> SampleTimes[((k + i) % 3) + 1]]

RowPool == {Row(k, i, q) : k \in Keys, i \in Ids, q \in QueryTypes}

SeqsUpTo(S, n) == UNION {[1..m -> S] : m \in 0..n}

Stores == SeqsUpTo(RowPool, MaxRows)

InitExport ==
    /\ store \in Stores
    /\ uid_arg \in {None} \cup {PyInt(k) : k \in Keys}
    /\ pc = "start"
    /\ conn = "none"
    /\ uid = uid_arg
    /\ rows = <<>>
    /\ idx = 1
    /\ gacha_list = <<>>
    /\ stdout = <<>>
    /\ uigf_data = Unset
    /\ outfile = "previous"
    /\ ret = "pending"
    /\ exit_status = -1

IdleExport ==
    /\ store = <<>>
    /\ uid_arg = None
    /\ pc = "idle"
    /\ conn = "none"
    /\ uid = None
    /\ rows = <<>>
    /\ idx = 1
    /\ gacha_list = <<>>
    /\ stdout = <<>>
    /\ uigf_data = Unset
    /\ outfile = "previous"
    /\ ret = "pending"
    /\ exit_status = -1

IdleItem == item_id = 0 /\ item_info = Unset
IdleTime == time_str = <<>> /\ formatted_time = Unset
IdlePool == query_type = 0 /\ gacha_info = Unset

-----------------------------------------------------------------------------
(* export_gacha_data and the __main__ block *)

Emit(out, m) == Append(out, m)

\* the rows WHERE ArchiveId = k, in table order
Matching(k) == SelectSeq(store, LAMBDA r : r.ArchiveId = k)

IsSortedById(s) == \A i \in 1..(Len(s) - 1) : s[i].Id <= s[i + 1].Id

Orderings(s) ==
    {[i \in 1..Len(s) |-> s[p[i]]] : p \in Permutations(1..Len(s))}

\* the query without its ORDER BY clause, answered in table order
QueryRows_TableOrder(k) == {Matching(k)}

\* SELECT ... WHERE ArchiveId = ? ORDER BY Id ASC: the results the engine
\* may return, rows of equal Id in any order
QueryRows(k) == {s \in Orderings(Matching(k)) : IsSortedById(s)}

\* SELECT DISTINCT ArchiveId FROM gacha_items LIMIT 1: the results the
\* engine may return for a non-empty table
QueryFirstKey == {store[i].ArchiveId : i \in DOMAIN store}

\* sqlite3.connect(db_path); conn.cursor()
Connect ==
    /\ pc = "start"
    /\ conn' = "open"
    /\ pc' = "connected"
    /\ UNCHANGED <<store, uid_arg, uid, rows, idx, gacha_list, stdout,
                   uigf_data, outfile, ret, exit_status,
                   pureVars>>

\* sqlite3.connect raises
ConnectFails ==
    /\ pc = "start"
    /\ ret' = "sqlite3.Error"
    /\ pc' = "raised"
    /\ UNCHANGED <<store, uid_arg, conn, uid, rows, idx, gacha_list, stdout,
                   uigf_data, outfile, exit_status,
                   pureVars>>

\* if uid is None: the first ArchiveId of the table, or the early return
SelectKey ==
    /\ pc = "connected"
    /\ uid = None
    /\ IF store # <<>>
       THEN /\ \E k \in QueryFirstKey : uid' = PyInt(k)
            /\ UNCHANGED <<pc, conn, stdout, ret>>
       ELSE /\ stdout' = Emit(stdout, [msg |-> "error_empty_store"])
            /\ conn' = "closed"
            /\ ret' = "None"
            /\ pc' = "returned"
            /\ UNCHANGED uid
    /\ UNCHANGED <<store, uid_arg, rows, idx, gacha_list, uigf_data, outfile,
                   exit_status,
                   pureVars>>

\* the first cursor.execute raises (no such table, locked or damaged store)
SelectKeyFails ==
    /\ pc = "connected"
    /\ uid = None
    /\ ret' = "sqlite3.Error"
    /\ pc' = "raised"
    /\ UNCHANGED <<store, uid_arg, conn, uid, rows, idx, gacha_list, stdout,
                   uigf_data, outfile, exit_status,
                   pureVars>>

\* the second query, fetchall, conn.close() and the check of rows
FetchRows ==
    /\ pc = "connected"
    /\ uid # None
    /\ \E rs \in QueryRows(uid.int) :
        /\ rows' = rs
        /\ conn' = "closed"
        /\ IF rs = <<>>
           THEN /\ stdout' = Emit(stdout, [msg |-> "error_no_records", uid |-> uid])
                /\ ret' = "None"
                /\ pc' = "returned"
           ELSE /\ stdout' = Emit(stdout, [msg |-> "exporting", uid |-> uid,
                                            count |-> Len(rs)])
                /\ pc' = "loop"
                /\ UNCHANGED ret
    /\ gacha_list' = <<>>
    /\ idx' = 1
    /\ UNCHANGED <<store, uid_arg, uid, uigf_data, outfile, exit_status,
                   pureVars>>

\* the second cursor.execute raises
FetchRowsFails ==
    /\ pc = "connected"
    /\ uid # None
    /\ ret' = "sqlite3.Error"
    /\ pc' = "raised"
    /\ UNCHANGED <<store, uid_arg, conn, uid, rows, idx, gacha_list, stdout,
                   uigf_data, outfile, exit_status,
                   pureVars>>

\* the record built of a row
Record(row, info) ==
    LET item == get_item_info(row.ItemId) IN
    [uigf_gacha_type |-> info.uigf_gacha_type,
     gacha_type |-> info.gacha_type,
     item_id |-> Str(row.ItemId),
     count |-> <<"1">>,
     time |-> parse_timestamp(row.Time),
     name |-> item.name,
     item_type |-> item.item_type,
     rank_type |-> item.rank_type,
     id |-> Str(row.Id)]

\* the loop body with the warning left out
LoopStep_SilentSkip ==
    /\ pc = "loop"
    /\ idx <= Len(rows)
    /\ LET row == rows[idx]
           info == GACHA_TYPE_MAP_get(row.QueryType)
       IN IF info = None
          THEN UNCHANGED <<gacha_list, stdout>>
          ELSE /\ gacha_list' = Append(gacha_list, Record(row, info))
               /\ UNCHANGED stdout
    /\ idx' = idx + 1
    /\ UNCHANGED <<store, uid_arg, pc, conn, uid, rows, uigf_data, outfile,
                   ret, exit_status,
                   pureVars>>

\* one iteration of for row in rows
LoopStep ==
    /\ pc = "loop"
    /\ idx <= Len(rows)
    /\ LET row == rows[idx]
           info == GACHA_TYPE_MAP_get(row.QueryType)
       IN IF info = None
          THEN /\ stdout' = Emit(stdout, [msg |-> "warning",
                                           query_type |-> row.QueryType,
                                           record_id |-> row.Id])
               /\ UNCHANGED gacha_list
          ELSE /\ gacha_list' = Append(gacha_list, Record(row, info))
               /\ UNCHANGED stdout
    /\ idx' = idx + 1
    /\ UNCHANGED <<store, uid_arg, pc, conn, uid, rows, uigf_data, outfile,
                   ret, exit_status,
                   pureVars>>

\* the end of the loop: the offset and uigf_data (export_timestamp and
\* export_time, the two readings of the clock, are left out)
BuildDocument ==
    /\ pc = "loop"
    /\ idx > Len(rows)
    /\ uigf_data' =
            [info |-> [uid |-> Str(uid.int),
                       lang |-> "zh-cn",
                       export_app |-> "HutaoSave Exporter",
                       export_app_version |-> "1.0.0",
                       uigf_version |-> "v3.0",
                       region_time_zone |-> get_timezone_from_uid(uid)],
             list |-> gacha_list]
    /\ pc' = "write"
    /\ UNCHANGED <<store, uid_arg, conn, uid, rows, idx, gacha_list, stdout,
                   outfile, ret, exit_status,
                   pureVars>>

\* open(output_path, 'w') truncates the destination
OpenOutput ==
    /\ pc = "write"
    /\ outfile' = "empty"
    /\ pc' = "dump"
    /\ UNCHANGED <<store, uid_arg, conn, uid, rows, idx, gacha_list, stdout,
                   uigf_data, ret, exit_status,
                   pureVars>>

\* open raises and leaves the destination as it was
OpenOutputFails ==
    /\ pc = "write"
    /\ ret' = "OSError"
    /\ pc' = "raised"
    /\ UNCHANGED <<store, uid_arg, conn, uid, rows, idx, gacha_list, stdout,
                   uigf_data, outfile, exit_status,
                   pureVars>>

\* json.dump writes the whole document; the summary and return uigf_data
DumpJson ==
    /\ pc = "dump"
    /\ outfile' = "complete"
    /\ stdout' = Emit(stdout, [msg |-> "done", uid |-> uid,
                                count |-> Len(gacha_list),
                                region_time_zone |-> uigf_data.info.region_time_zone])
    /\ ret' = "uigf_data"
    /\ pc' = "returned"
    /\ UNCHANGED <<store, uid_arg, conn, uid, rows, idx, gacha_list,
                   uigf_data, exit_status,
                   pureVars>>

\* a write of json.dump raises after none or some of the chunks were written
DumpJsonFails ==
    /\ pc = "dump"
    /\ outfile' \in {"empty", "partial"}
    /\ ret' = "OSError"
    /\ pc' = "raised"
    /\ UNCHANGED <<store, uid_arg, conn, uid, rows, idx, gacha_list, stdout,
                   uigf_data, exit_status,
                   pureVars>>

\* __main__: export_gacha_data returned; the script ends
MainReturns ==
    /\ pc = "returned"
    /\ exit_status' = 0
    /\ pc' = "exited"
    /\ UNCHANGED <<store, uid_arg, conn, uid, rows, idx, gacha_list, stdout,
                   uigf_data, outfile, ret,
                   pureVars>>

\* __main__: except Exception prints the error and the traceback; the
\* script ends
MainExcept ==
    /\ pc = "raised"
    /\ stdout' = Emit(stdout, [msg |-> "export_failed", error |-> ret])
    /\ exit_status' = 0
    /\ pc' = "exited"
    /\ UNCHANGED <<store, uid_arg, conn, uid, rows, idx, gacha_list,
                   uigf_data, outfile, ret,
                   pureVars>>

Next ==
    \/ Connect \/ ConnectFails
    \/ SelectKey \/ SelectKeyFails
    \/ FetchRows \/ FetchRowsFails
    \/ LoopStep \/ BuildDocument
    \/ OpenOutput \/ OpenOutputFails
    \/ DumpJson \/ DumpJsonFails
    \/ MainReturns \/ MainExcept

Init == InitExport /\ IdleItem /\ IdleTime /\ IdlePool

Spec == Init /\ [][Next]_vars

-----------------------------------------------------------------------------
(* The pure functions, each applied to inputs drawn from a bounded set *)

InitItem == item_id \in 0..MaxItemId /\ item_info = Unset

CallGetItemInfo ==
    /\ item_info = Unset
    /\ item_info' = get_item_info(item_id)
    /\ UNCHANGED <<item_id, exportVars, timeVars, poolVars>>

Pads == SeqsUpTo({" ", "\n", "\r", "\t"}, MaxPad)

\* leading whitespace, a clean literal, line breaks and whitespace, and an
\* optional offset suffix at the end
TimeInputs ==
    {lead \o t \o mid \o off :
        lead \in Pads, t \in {CleanTimes[1], CleanTimes[2]},
        mid \in Pads, off \in Offsets \cup {<<>>}}

InitTime == time_str \in TimeInputs /\ formatted_time = Unset

CallParseTimestamp ==
    /\ formatted_time = Unset
    /\ formatted_time' = parse_timestamp(time_str)
    /\ UNCHANGED <<time_str, exportVars, itemVars, poolVars>>

InitPool == query_type \in 0..MaxQueryType /\ gacha_info = Unset

CallGachaTypeMapGet ==
    /\ gacha_info = Unset
    /\ gacha_info' = GACHA_TYPE_MAP_get(query_type)
    /\ UNCHANGED <<query_type, exportVars, itemVars, timeVars>>

StartItem == IdleExport /\ InitItem /\ IdleTime /\ IdlePool
StartTime == IdleExport /\ IdleItem /\ InitTime /\ IdlePool
StartPool == IdleExport /\ IdleItem /\ IdleTime /\ InitPool

SpecItem == StartItem /\ [][CallGetItemInfo]_vars
SpecTime == StartTime /\ [][CallParseTimestamp]_vars
SpecPool == StartPool /\ [][CallGachaTypeMapGet]_vars

-----------------------------------------------------------------------------
(* Claims about the pure functions *)

MappedCodes == {100, 200, 301, 302, 400, 500}

\* C3: the category is "character" iff 10000 <= id <= 19999 and "weapon"
\* otherwise; the rank is "4" for every id in [11000, 16999], "5" for the
\* rest of [10000, 19999] and "3" outside [10000, 19999].
C3_Classification ==
    item_info # Unset =>
        /\ item_info.item_type =
              IF 10000 <= item_id /\ item_id <= 19999 THEN "character" ELSE "weapon"
        /\ item_info.rank_type =
              IF 11000 <= item_id /\ item_id <= 16999 THEN "4"
              ELSE IF 10000 <= item_id /\ item_id <= 19999 THEN "5"
              ELSE "3"

\* t occurs in s
Contains(s, t) ==
    \E i \in 1..Len(s) :
        i + Len(t) - 1 <= Len(s) /\ SubSeq(s, i, i + Len(t) - 1) = t

C9_PoolLookup ==
    gacha_info # Unset =>
        IF query_type \in MappedCodes
        THEN gacha_info =
                [uigf_gacha_type |-> IF query_type = 400 THEN <<"3", "0", "1">>
                                     ELSE Str(query_type),
                 gacha_type |-> Str(query_type)]
        ELSE gacha_info = None

C9_Witness ==
    /\ query_type = 400
    /\ gacha_info # Unset
    /\ gacha_info # None
    /\ gacha_info.uigf_gacha_type = <<"3", "0", "1">>

-----------------------------------------------------------------------------
(* Claims about export_gacha_data and the entry point *)

IsMapped(r) == r.QueryType \in MappedCodes

Warnings == SelectSeq(stdout, LAMBDA m : m.msg = "warning")

\* the call of export_gacha_data has ended
CallEnded == ret # "pending"

\* C1: the list of the document is exactly the rows of the exported key
\* whose query-type code is one of the six mapped codes, one record per such
\* row and none for any other row or key, in ascending order of display id.
C1_ListIsMappedRowsInOrder ==
    uigf_data # Unset =>
        LET L == uigf_data.list
            M == SelectSeq(store, LAMBDA r : r.ArchiveId = uid.int /\ IsMapped(r))
        IN /\ uid_arg # None => uid = uid_arg
           /\ Len(L) = Len(M)
           /\ \E p \in Permutations(1..Len(M)) :
                 /\ \A i \in 1..Len(M) :
                       /\ L[i].id = Str(M[p[i]].Id)
                       /\ L[i].gacha_type = Str(M[p[i]].QueryType)
                       /\ L[i].item_id = Str(M[p[i]].ItemId)
                 /\ \A i \in 1..(Len(M) - 1) : M[p[i]].Id <= M[p[i + 1]].Id

C1_Witness ==
    /\ uigf_data # Unset
    /\ Len(store) = 3
    /\ \A i \in 1..3 : store[i].ArchiveId = 86
    /\ store[1].Id = 2 /\ store[1].QueryType = 400
    /\ store[2].Id = 1 /\ store[2].QueryType = 999
    /\ store[3].Id = 1 /\ store[3].QueryType = 400
    /\ Len(uigf_data.list) = 2
    /\ uigf_data.list[1].id = <<"1">>
    /\ uigf_data.list[2].id = <<"2">>

\* C2: with no key supplied and an empty store the call fails with
\* EmptyStoreError, and with a key that has zero rows it fails with
\* NoRecordsForKeyError; in neither case does it return normally.
C2_ErrorOutcome ==
    /\ (CallEnded /\ ret # "sqlite3.Error" /\ uid_arg = None /\ store = <<>>)
          => ret = "EmptyStoreError"
    /\ (CallEnded /\ ret # "sqlite3.Error" /\ uid # None
          /\ Matching(uid.int) = <<>>)
          => ret = "NoRecordsForKeyError"

\* C5: on every exit path of the call the store connection has been
\* released by the time the call ends.
C5_ConnectionReleased == CallEnded => conn # "open"

\* C6: when a run has ended, the destination holds its complete previous
\* content or the complete new document.
C6_AtomicWrite == pc = "exited" => outfile \in {"previous", "complete"}

\* C7: a run that fails reports the error and ends with a non-zero exit
\* status; a zero exit status occurs only when a complete document was
\* written.
C7_ExitStatus ==
    pc = "exited" =>
        /\ ret # "uigf_data" =>
              /\ exit_status # 0
              /\ \E i \in 1..Len(stdout) :
                    stdout[i].msg \in {"error_empty_store", "error_no_records",
                                       "export_failed"}
        /\ exit_status = 0 => outfile = "complete"

\* C8: every fetched row is accounted for exactly once, by one record of
\* the list or by one warning that names its query-type code and its
\* display id; records + warnings = rows at the end of the loop.
C8_NoSilentDrop ==
    pc \in {"loop", "write", "dump", "returned", "raised", "exited"} /\ rows # <<>> =>
        LET done == SubSeq(rows, 1, idx - 1)
            kept == SelectSeq(done, IsMapped)
            skipped == SelectSeq(done, LAMBDA r : ~IsMapped(r))
        IN /\ Len(gacha_list) + Len(Warnings) = idx - 1
           /\ uigf_data # Unset => idx - 1 = Len(rows)
           /\ Len(gacha_list) = Len(kept)
           /\ \A i \in 1..Len(kept) : gacha_list[i].id = Str(kept[i].Id)
           /\ Len(Warnings) = Len(skipped)
           /\ \A i \in 1..Len(skipped) :
                 /\ Warnings[i].query_type = skipped[i].QueryType
                 /\ Warnings[i].record_id = skipped[i].Id

C8_Witness ==
    /\ ret = "uigf_data"
    /\ Len(rows) = 3
    /\ Len(gacha_list) = 1
    /\ Len(Warnings) = 2

\* the first character of the key's string form
LeadingChar(k) == Head(Str(k))

\* C10: the offset is -5 when the key's string form starts with "6", +1
\* when it starts with "7" and +8 otherwise, and the region_time_zone of
\* the document is this offset for the key whose records were exported.
C10_RegionTimeZone ==
    uigf_data # Unset =>
        /\ \A i \in 1..Len(rows) : rows[i].ArchiveId = uid.int
        /\ uigf_data.info.uid = Str(uid.int)
        /\ uigf_data.info.region_time_zone =
              CASE LeadingChar(uid.int) = "6" -> -5
                [] LeadingChar(uid.int) = "7" -> 1
                [] OTHER -> 8

C10_Witness ==
    /\ uigf_data # Unset
    /\ uid_arg = None
    /\ uid = PyInt(76)
    /\ uigf_data.info.region_time_zone = 1

====
